---- MODULE Spec2Model ----
(***************************************************************************)
(* Model of src/src/indexable_sorted_map.rs: IndexableSortedMap, a 2-3     *)
(* tree whose leaves carry one key/value pair each, whose nodes cache      *)
(* min_key and size, and whose TreeZipper walks the leaves left to right.  *)
(***************************************************************************)
EXTENDS Integers, Sequences, FiniteSets, TLC

\* ---- bounds ----
MaxKey == 4      \* keys are 1..MaxKey
MaxSize == 4     \* insert is called while the map has fewer than MaxSize leaves

\* K: Ord + Clone, as integers
Keys == 1..MaxKey

\* V is opaque: the code moves values and never reads or compares them, so two
\* payloads are enough to tell any leaf from any other
Vals == {"a", "b"}

\* ---- Option<T> ----
None == [tag |-> "None"]
Some(x) == [tag |-> "Some", val |-> x]

\* unreachable!() aborts the call
Panic == [tag |-> "Panic"]

\* ---- enum Tree ----
Leaf(k, v) == [tag |-> "Leaf", k |-> k, v |-> v]
Branch2(l, r) == [tag |-> "Branch2", left |-> l, right |-> r]
Branch3(l, m, r) == [tag |-> "Branch3", left |-> l, middle |-> m, right |-> r]

\* Tree::singleton
TreeSingleton(key, value) == Leaf(key, value)

\* Tree::min_key
TreeMinKey(tree) ==
    IF tree.tag = "Leaf" THEN tree.k ELSE tree.left.min_key

\* Tree::len with the middle child of a Branch3 left out of the sum
TreeLen_NoMiddle(tree) ==
    CASE tree.tag = "Leaf" -> 1
      [] tree.tag = "Branch2" -> tree.left.size + tree.right.size
      [] tree.tag = "Branch3" -> tree.left.size + tree.right.size

\* Tree::len
TreeLen(tree) ==
    CASE tree.tag = "Leaf" -> 1
      [] tree.tag = "Branch2" -> tree.left.size + tree.right.size
      [] tree.tag = "Branch3" -> tree.left.size + tree.middle.size + tree.right.size

\* Node::len
NodeLen(node) == node.size

\* Node::from_tree
from_tree(tree) ==
    [min_key |-> TreeMinKey(tree), size |-> TreeLen(tree), tree |-> tree]

\* Node::singleton, branch2 .. branch7
singleton(key, value) == from_tree(TreeSingleton(key, value))
branch2(l, r) == from_tree(Branch2(l, r))
\* branch3 building a Branch2 of its outer children
branch3_DropsMiddle(l, m, r) == from_tree(Branch2(l, r))
branch3(l, m, r) == from_tree(Branch3(l, m, r))
branch4(a, b, c, d) == branch2(branch2(a, b), branch2(c, d))
branch5(a, b, c, d, e) == branch2(branch2(a, b), branch3(c, d, e))
branch6(a, b, c, d, e, f) == branch2(branch3(a, b, c), branch3(d, e, f))
branch7(a, b, c, d, e, f, g) == branch3(branch2(a, b), branch2(c, d), branch3(e, f, g))

\* Node::merge1: u is the underflowed left child, x and y its siblings
merge1(u, x, y) ==
    LET xt == x.tree
        yt == y.tree
    IN CASE xt.tag = "Branch2" /\ yt.tag = "Branch2" ->
              branch5(u, xt.left, xt.right, yt.left, yt.right)
         [] xt.tag = "Branch2" /\ yt.tag = "Branch3" ->
              branch6(u, xt.left, xt.right, yt.left, yt.middle, yt.right)
         [] xt.tag = "Branch3" /\ yt.tag = "Branch2" ->
              branch6(u, xt.left, xt.middle, xt.right, yt.left, yt.right)
         [] xt.tag = "Branch3" /\ yt.tag = "Branch3" ->
              branch7(u, xt.left, xt.middle, xt.right, yt.left, yt.middle, yt.right)
         [] OTHER -> Panic

\* Node::merge2: u is the underflowed middle child
merge2(x, u, y) ==
    LET xt == x.tree
        yt == y.tree
    IN CASE xt.tag = "Branch2" /\ yt.tag = "Branch2" ->
              branch5(xt.left, xt.right, u, yt.left, yt.right)
         [] xt.tag = "Branch2" /\ yt.tag = "Branch3" ->
              branch6(xt.left, xt.right, u, yt.left, yt.middle, yt.right)
         [] xt.tag = "Branch3" /\ yt.tag = "Branch2" ->
              branch6(xt.left, xt.middle, xt.right, u, yt.left, yt.right)
         [] xt.tag = "Branch3" /\ yt.tag = "Branch3" ->
              branch7(xt.left, xt.middle, xt.right, u, yt.left, yt.middle, yt.right)
         [] OTHER -> Panic

\* Node::merge3: u is the underflowed right child
merge3(x, y, u) ==
    LET xt == x.tree
        yt == y.tree
    IN CASE xt.tag = "Branch2" /\ yt.tag = "Branch2" ->
              branch5(xt.left, xt.right, yt.left, yt.right, u)
         [] xt.tag = "Branch2" /\ yt.tag = "Branch3" ->
              branch6(xt.left, xt.right, yt.left, yt.middle, yt.right, u)
         [] xt.tag = "Branch3" /\ yt.tag = "Branch2" ->
              branch6(xt.left, xt.middle, xt.right, yt.left, yt.right, u)
         [] xt.tag = "Branch3" /\ yt.tag = "Branch3" ->
              branch7(xt.left, xt.middle, xt.right, yt.left, yt.middle, yt.right, u)
         [] OTHER -> Panic

\* ---- enum InsertResult / RemoveResult ----
SameDepth(n) == [tag |-> "SameDepth", node |-> n]
Overflow(l, r) == [tag |-> "Overflow", left |-> l, right |-> r]
Underflow(n) == [tag |-> "Underflow", node |-> n]
Empty == [tag |-> "Empty"]

\* the pair (RemoveResult, Option<V>) returned by Node::remove
RemPair(res, result) == [res |-> res, result |-> result]
RemPanic == RemPair(Panic, None)

\* SameDepth of a merge, or the abort the merge ran into
SameDepthOrPanic(n) == IF n = Panic THEN Panic ELSE SameDepth(n)

\* ---- Node::insert ----
RECURSIVE NodeInsert(_, _, _)
NodeInsert(self, key, value) ==
    LET t == self.tree IN
    CASE t.tag = "Leaf" ->
           \* left = (key, value), right = (lk, lv); swapped when right.0 < left.0
           IF t.k < key
           THEN Overflow(singleton(t.k, t.v), singleton(key, value))
           ELSE Overflow(singleton(key, value), singleton(t.k, t.v))
      [] t.tag = "Branch2" ->
           IF key < t.right.min_key
           THEN LET r == NodeInsert(t.left, key, value) IN
                IF r.tag = "SameDepth"
                THEN SameDepth(branch2(r.node, t.right))
                ELSE SameDepth(branch3(r.left, r.right, t.right))
           ELSE LET r == NodeInsert(t.right, key, value) IN
                IF r.tag = "SameDepth"
                THEN SameDepth(branch2(t.left, r.node))
                ELSE SameDepth(branch3(t.left, r.left, r.right))
      [] t.tag = "Branch3" ->
           IF key < t.middle.min_key
           THEN LET r == NodeInsert(t.left, key, value) IN
                IF r.tag = "SameDepth"
                THEN SameDepth(branch3(r.node, t.middle, t.right))
                ELSE Overflow(branch2(r.left, r.right), branch2(t.middle, t.right))
           ELSE IF key < t.right.min_key
           THEN LET r == NodeInsert(t.middle, key, value) IN
                IF r.tag = "SameDepth"
                THEN SameDepth(branch3(t.left, r.node, t.right))
                ELSE Overflow(branch2(t.left, r.left), branch2(r.right, t.right))
           ELSE LET r == NodeInsert(t.right, key, value) IN
                IF r.tag = "SameDepth"
                THEN SameDepth(branch3(t.left, t.middle, r.node))
                ELSE Overflow(branch2(t.left, t.middle), branch2(r.left, r.right))

\* ---- Node::remove ----
\* the arm below putting the shortened child after its sibling's children, as
\* the arm for the right child does
RemB2LeftUnderflow_Appended(new_left, right, result) ==
    CASE right.tree.tag = "Leaf" -> RemPanic
      [] right.tree.tag = "Branch2" ->
           RemPair(Underflow(branch3(right.tree.left, right.tree.right, new_left)), result)
      [] right.tree.tag = "Branch3" ->
           RemPair(SameDepth(branch4(right.tree.left, right.tree.middle,
                                     right.tree.right, new_left)), result)

\* the arm below keeping the shortened child next to a Branch2 sibling
RemB2LeftUnderflow_NoMerge(new_left, right, result) ==
    CASE right.tree.tag = "Leaf" -> RemPanic
      [] right.tree.tag = "Branch2" ->
           RemPair(SameDepth(branch2(new_left, right)), result)
      [] right.tree.tag = "Branch3" ->
           RemPair(SameDepth(branch4(new_left, right.tree.left,
                                     right.tree.middle, right.tree.right)), result)

\* Branch2 arm, Underflow(new_left) from the left child: inspect *right.tree
RemB2LeftUnderflow(new_left, right, result) ==
    CASE right.tree.tag = "Leaf" -> RemPanic
      [] right.tree.tag = "Branch2" ->
           RemPair(Underflow(branch3(new_left, right.tree.left, right.tree.right)), result)
      [] right.tree.tag = "Branch3" ->
           RemPair(SameDepth(branch4(new_left, right.tree.left,
                                     right.tree.middle, right.tree.right)), result)

\* the same arm keeping the shortened child next to a Branch2 sibling
RemB2RightUnderflow_NoMerge(left, new_right, result) ==
    CASE left.tree.tag = "Leaf" -> RemPanic
      [] left.tree.tag = "Branch2" ->
           RemPair(SameDepth(branch2(left, new_right)), result)
      [] left.tree.tag = "Branch3" ->
           RemPair(SameDepth(branch4(left.tree.left, left.tree.middle,
                                     left.tree.right, new_right)), result)

\* the arm below reporting the merged Branch3 as SameDepth
RemB2RightUnderflow_SameDepth(left, new_right, result) ==
    CASE left.tree.tag = "Leaf" -> RemPanic
      [] left.tree.tag = "Branch2" ->
           RemPair(SameDepth(branch3(left.tree.left, left.tree.right, new_right)), result)
      [] left.tree.tag = "Branch3" ->
           RemPair(SameDepth(branch4(left.tree.left, left.tree.middle,
                                     left.tree.right, new_right)), result)

\* Branch2 arm, Underflow(new_right) from the right child: inspect *left.tree
RemB2RightUnderflow(left, new_right, result) ==
    CASE left.tree.tag = "Leaf" -> RemPanic
      [] left.tree.tag = "Branch2" ->
           RemPair(Underflow(branch3(left.tree.left, left.tree.right, new_right)), result)
      [] left.tree.tag = "Branch3" ->
           RemPair(SameDepth(branch4(left.tree.left, left.tree.middle,
                                     left.tree.right, new_right)), result)

\* the condition of the first test of the Branch3 arm (line 350)
RemB3GoesLeft(key, t) == key < t.right.min_key

\* the condition of the second test of the Branch3 arm (line 377)
RemB3GoesMiddle(key, t) == key < t.middle.min_key

RECURSIVE NodeRemove(_, _)
NodeRemove(self, key) ==
    LET t == self.tree IN
    CASE t.tag = "Leaf" ->
           IF t.k = key
           THEN RemPair(Empty, Some(t.v))
           ELSE RemPair(SameDepth(singleton(t.k, t.v)), None)
      [] t.tag = "Branch2" ->
           IF key < t.right.min_key
           THEN LET r == NodeRemove(t.left, key) IN
                (CASE r.res.tag = "Empty" -> RemPair(Underflow(t.right), r.result)
                  [] r.res.tag = "SameDepth" ->
                       RemPair(SameDepth(branch2(r.res.node, t.right)), r.result)
                  [] r.res.tag = "Underflow" ->
                       RemB2LeftUnderflow(r.res.node, t.right, r.result)
                  [] r.res.tag = "Panic" -> RemPanic)
           ELSE LET r == NodeRemove(t.right, key) IN
                (CASE r.res.tag = "Empty" -> RemPair(Underflow(t.left), r.result)
                  [] r.res.tag = "SameDepth" ->
                       RemPair(SameDepth(branch2(t.left, r.res.node)), r.result)
                  [] r.res.tag = "Underflow" ->
                       RemB2RightUnderflow(t.left, r.res.node, r.result)
                  [] r.res.tag = "Panic" -> RemPanic)
      [] t.tag = "Branch3" ->
           IF RemB3GoesLeft(key, t)
           THEN LET r == NodeRemove(t.left, key) IN
                (CASE r.res.tag = "Empty" ->
                       RemPair(SameDepth(branch2(t.middle, t.right)), r.result)
                  [] r.res.tag = "SameDepth" ->
                       RemPair(SameDepth(branch3(r.res.node, t.middle, t.right)), r.result)
                  [] r.res.tag = "Underflow" ->
                       RemPair(SameDepthOrPanic(merge1(r.res.node, t.middle, t.right)), r.result)
                  [] r.res.tag = "Panic" -> RemPanic)
           ELSE IF RemB3GoesMiddle(key, t)
           THEN LET r == NodeRemove(t.middle, key) IN
                (CASE r.res.tag = "Empty" ->
                       RemPair(SameDepth(branch2(t.left, t.right)), r.result)
                  [] r.res.tag = "SameDepth" ->
                       RemPair(SameDepth(branch3(t.left, r.res.node, t.right)), r.result)
                  [] r.res.tag = "Underflow" ->
                       RemPair(SameDepthOrPanic(merge2(t.left, r.res.node, t.right)), r.result)
                  [] r.res.tag = "Panic" -> RemPanic)
           ELSE LET r == NodeRemove(t.right, key) IN
                (CASE r.res.tag = "Empty" ->
                       RemPair(SameDepth(branch2(t.left, t.middle)), r.result)
                  [] r.res.tag = "SameDepth" ->
                       RemPair(SameDepth(branch3(t.left, t.middle, r.res.node)), r.result)
                  [] r.res.tag = "Underflow" ->
                       RemPair(SameDepthOrPanic(merge3(t.left, t.middle, r.res.node)), r.result)
                  [] r.res.tag = "Panic" -> RemPanic)

\* ---- struct NodeContext / TreeZipper ----
NodeContext(c, n) == [context |-> c, node |-> n]
TreeZipper(stack, focus) == [stack |-> stack, focus |-> focus]

Top(stack) == stack[Len(stack)]
Pop(stack) == SubSeq(stack, 1, Len(stack) - 1)

\* Node::zipper: the loop that walks down the leftmost children
\* the loop of Node::zipper recording every branch as a Branch3
RECURSIVE ZipperLoop_WrongSlot(_, _)
ZipperLoop_WrongSlot(stack, focus) ==
    LET t == focus.tree IN
    CASE t.tag \in {"Branch2", "Branch3"} ->
           ZipperLoop_WrongSlot(Append(stack, NodeContext("Branch3Left", focus)), t.left)
      [] t.tag = "Leaf" -> TreeZipper(stack, <<t.k, t.v>>)

\* the loop of Node::zipper descending into the last child instead of the first
RECURSIVE ZipperLoop_Rightmost(_, _)
ZipperLoop_Rightmost(stack, focus) ==
    LET t == focus.tree IN
    CASE t.tag = "Branch2" ->
           ZipperLoop_Rightmost(Append(stack, NodeContext("Branch2Right", focus)), t.right)
      [] t.tag = "Branch3" ->
           ZipperLoop_Rightmost(Append(stack, NodeContext("Branch3Right", focus)), t.right)
      [] t.tag = "Leaf" -> TreeZipper(stack, <<t.k, t.v>>)

RECURSIVE ZipperLoop(_, _)
ZipperLoop(stack, focus) ==
    LET t == focus.tree IN
    CASE t.tag = "Branch2" ->
           ZipperLoop(Append(stack, NodeContext("Branch2Left", focus)), t.left)
      [] t.tag = "Branch3" ->
           ZipperLoop(Append(stack, NodeContext("Branch3Left", focus)), t.left)
      [] t.tag = "Leaf" -> TreeZipper(stack, <<t.k, t.v>>)

NodeZipper(self) == ZipperLoop(<<>>, self)

\* TreeZipper::into_focus / focus
into_focus(z) == z.focus

\* the break of the first loop leaving out the frame of the sibling it enters
Broke_NoFrame(stack, focus, n) == [stack |-> Pop(stack), focus |-> focus, n |-> n]

\* what the first loop of advance_to / advance breaks with
Broke(stack, focus, n) == [stack |-> stack, focus |-> focus, n |-> n]

\* the test below with its comparison turned round
AdvToTakes_Reversed(sibling, k) == sibling.min_key <= k

\* the test that ends the climb of advance_to at a sibling (lines 555, 570, 584)
AdvToTakes(sibling, k) == sibling.min_key >= k

\* TreeZipper::advance_to, first loop: pop frames up to a sibling to enter
RECURSIVE AdvToClimb(_, _)
AdvToClimb(stack, k) ==
    IF stack = <<>> THEN None
    ELSE LET context == Top(stack)
             t == context.node.tree
             rest == Pop(stack)
         IN CASE context.context = "Branch2Left" ->
                   IF t.tag = "Branch2"
                   THEN LET pushed == Append(rest, NodeContext("Branch2Right", context.node)) IN
                        IF AdvToTakes(t.right, k)
                        THEN Broke(pushed, t.right, 0)
                        ELSE AdvToClimb(pushed, k)
                   ELSE Panic
              [] context.context = "Branch2Right" -> AdvToClimb(rest, k)
              [] context.context = "Branch3Left" ->
                   IF t.tag = "Branch3"
                   THEN LET pushed == Append(rest, NodeContext("Branch3Middle", context.node)) IN
                        IF AdvToTakes(t.middle, k)
                        THEN Broke(pushed, t.middle, 0)
                        ELSE AdvToClimb(pushed, k)
                   ELSE Panic
              [] context.context = "Branch3Middle" ->
                   IF t.tag = "Branch3"
                   THEN LET pushed == Append(rest, NodeContext("Branch3Right", context.node)) IN
                        IF AdvToTakes(t.right, k)
                        THEN Broke(pushed, t.right, 0)
                        ELSE AdvToClimb(pushed, k)
                   ELSE Panic
              [] context.context = "Branch3Right" -> AdvToClimb(rest, k)

\* TreeZipper::advance_to, second loop: walk down to a leaf
RECURSIVE AdvToDescend(_, _, _)
AdvToDescend(stack, focus, k) ==
    LET t == focus.tree IN
    CASE t.tag = "Branch2" ->
           IF t.left.min_key >= k
           THEN AdvToDescend(Append(stack, NodeContext("Branch2Left", focus)), t.left, k)
           ELSE AdvToDescend(Append(stack, NodeContext("Branch2Right", focus)), t.right, k)
      [] t.tag = "Branch3" ->
           IF t.left.min_key >= k
           THEN AdvToDescend(Append(stack, NodeContext("Branch3Left", focus)), t.left, k)
           ELSE IF t.middle.min_key >= k
           THEN AdvToDescend(Append(stack, NodeContext("Branch3Middle", focus)), t.middle, k)
           ELSE AdvToDescend(Append(stack, NodeContext("Branch3Right", focus)), t.right, k)
      [] t.tag = "Leaf" -> TreeZipper(stack, <<t.k, t.v>>)

\* TreeZipper::advance_to: Some(zipper), None, or Panic
advance_to(self, k) ==
    IF self.focus[1] >= k THEN Some(self)
    ELSE LET b == AdvToClimb(self.stack, k) IN
         IF b = None THEN None
         ELSE IF b = Panic THEN Panic
         ELSE Some(AdvToDescend(b.stack, b.focus, k))

\* the first loop of advance with the Branch3Left arm written like the
\* Branch2Left arm: it moves on to the right child, past the middle one
RECURSIVE AdvClimb_SkipMiddle(_, _)
AdvClimb_SkipMiddle(stack, n) ==
    IF stack = <<>> THEN None
    ELSE LET context == Top(stack)
             t == context.node.tree
             rest == Pop(stack)
         IN CASE context.context \in {"Branch2Left", "Branch3Left", "Branch3Middle"} ->
                   LET c == IF t.tag = "Branch2" THEN "Branch2Right" ELSE "Branch3Right"
                       pushed == Append(rest, NodeContext(c, context.node))
                   IN IF n < t.right.size
                      THEN Broke(pushed, t.right, n)
                      ELSE AdvClimb_SkipMiddle(pushed, n - t.right.size)
              [] OTHER -> AdvClimb_SkipMiddle(rest, n)

\* TreeZipper::advance, first loop: pop frames, passing over whole siblings
RECURSIVE AdvClimb(_, _)
AdvClimb(stack, n) ==
    IF stack = <<>> THEN None
    ELSE LET context == Top(stack)
             t == context.node.tree
             rest == Pop(stack)
         IN CASE context.context = "Branch2Left" ->
                   IF t.tag = "Branch2"
                   THEN LET pushed == Append(rest, NodeContext("Branch2Right", context.node)) IN
                        IF n < t.right.size
                        THEN Broke(pushed, t.right, n)
                        ELSE AdvClimb(pushed, n - t.right.size)
                   ELSE Panic
              [] context.context = "Branch2Right" -> AdvClimb(rest, n)
              [] context.context = "Branch3Left" ->
                   IF t.tag = "Branch3"
                   THEN LET pushed == Append(rest, NodeContext("Branch3Middle", context.node)) IN
                        IF n < t.middle.size
                        THEN Broke(pushed, t.middle, n)
                        ELSE AdvClimb(pushed, n - t.middle.size)
                   ELSE Panic
              [] context.context = "Branch3Middle" ->
                   IF t.tag = "Branch3"
                   THEN LET pushed == Append(rest, NodeContext("Branch3Right", context.node)) IN
                        IF n < t.right.size
                        THEN Broke(pushed, t.right, n)
                        ELSE AdvClimb(pushed, n - t.right.size)
                   ELSE Panic
              [] context.context = "Branch3Right" -> AdvClimb(rest, n)

\* the second loop of advance entering the left child of a Branch2 on n <= size
RECURSIVE AdvDescend_OffByOne(_, _, _)
AdvDescend_OffByOne(stack, focus, n) ==
    LET t == focus.tree IN
    CASE t.tag = "Branch2" ->
           IF n <= t.left.size
           THEN AdvDescend_OffByOne(Append(stack, NodeContext("Branch2Left", focus)),
                                    t.left, n)
           ELSE AdvDescend_OffByOne(Append(stack, NodeContext("Branch2Right", focus)),
                                    t.right, n - t.left.size)
      [] t.tag = "Branch3" ->
           IF n < t.left.size
           THEN AdvDescend_OffByOne(Append(stack, NodeContext("Branch3Left", focus)),
                                    t.left, n)
           ELSE IF n - t.left.size < t.middle.size
           THEN AdvDescend_OffByOne(Append(stack, NodeContext("Branch3Middle", focus)),
                                    t.middle, n - t.left.size)
           ELSE AdvDescend_OffByOne(Append(stack, NodeContext("Branch3Right", focus)),
                                    t.right, n - t.left.size - t.middle.size)
      [] t.tag = "Leaf" -> TreeZipper(stack, <<t.k, t.v>>)

\* TreeZipper::advance, second loop: walk down by subtree sizes
RECURSIVE AdvDescend(_, _, _)
AdvDescend(stack, focus, n) ==
    LET t == focus.tree IN
    CASE t.tag = "Branch2" ->
           IF n < t.left.size
           THEN AdvDescend(Append(stack, NodeContext("Branch2Left", focus)), t.left, n)
           ELSE AdvDescend(Append(stack, NodeContext("Branch2Right", focus)), t.right,
                           n - t.left.size)
      [] t.tag = "Branch3" ->
           IF n < t.left.size
           THEN AdvDescend(Append(stack, NodeContext("Branch3Left", focus)), t.left, n)
           ELSE IF n - t.left.size < t.middle.size
           THEN AdvDescend(Append(stack, NodeContext("Branch3Middle", focus)), t.middle,
                           n - t.left.size)
           ELSE AdvDescend(Append(stack, NodeContext("Branch3Right", focus)), t.right,
                           n - t.left.size - t.middle.size)
      [] t.tag = "Leaf" -> TreeZipper(stack, <<t.k, t.v>>)

\* TreeZipper::advance without the n -= 1 that accounts for leaving the focus
advance_NoDecrement(self, n) ==
    IF n = 0 THEN Some(self)
    ELSE LET b == AdvClimb(self.stack, n) IN
         IF b = None THEN None
         ELSE IF b = Panic THEN Panic
         ELSE Some(AdvDescend(b.stack, b.focus, b.n))

\* TreeZipper::advance: Some(zipper), None, or Panic
advance(self, n) ==
    IF n = 0 THEN Some(self)
    ELSE LET b == AdvClimb(self.stack, n - 1) IN
         IF b = None THEN None
         ELSE IF b = Panic THEN Panic
         ELSE Some(AdvDescend(b.stack, b.focus, b.n))

\* ---- impl IndexableSortedMap (root is None or a node) ----
\* IndexableSortedMap::len
len(root) == IF root = None THEN 0 ELSE NodeLen(root)

\* IndexableSortedMap::is_empty
is_empty(root) == root = None

\* IndexableSortedMap::zipper
zipper(root) == IF root = None THEN None ELSE Some(NodeZipper(root))

\* lookup returning the value under the cursor without comparing its key
lookup_NoKeyTest(root, key) ==
    IF zipper(root) = None THEN None
    ELSE LET z == advance_to(zipper(root).val, key) IN
         IF z = None THEN None
         ELSE IF z = Panic THEN Panic
         ELSE Some(into_focus(z.val)[2])

\* IndexableSortedMap::lookup: Some(v), None, or Panic
lookup(root, key) ==
    IF zipper(root) = None THEN None
    ELSE LET z == advance_to(zipper(root).val, key) IN
         IF z = None THEN None
         ELSE IF z = Panic THEN Panic
         ELSE IF key = into_focus(z.val)[1] THEN Some(into_focus(z.val)[2]) ELSE None

\* IndexableSortedMap::index: Some(<<k, v>>), None, or Panic
index(root, i) ==
    IF zipper(root) = None THEN None
    ELSE LET z == advance(zipper(root).val, i) IN
         IF z = None THEN None
         ELSE IF z = Panic THEN Panic
         ELSE Some(into_focus(z.val))

\* insert wrapping an Overflow at the root with its halves exchanged
insert_Swapped(root, key, value) ==
    IF root = None THEN singleton(key, value)
    ELSE LET r == NodeInsert(root, key, value) IN
         IF r.tag = "SameDepth" THEN r.node ELSE branch2(r.right, r.left)

\* IndexableSortedMap::insert: the new root
insert(root, key, value) ==
    IF root = None THEN singleton(key, value)
    ELSE LET r == NodeInsert(root, key, value) IN
         IF r.tag = "SameDepth" THEN r.node ELSE branch2(r.left, r.right)

\* remove storing the new root only when a value came back, so that a miss
\* leaves the root taken out
remove_MissDropsRoot(root, key) ==
    IF root = None THEN [root |-> None, result |-> None]
    ELSE LET r == NodeRemove(root, key) IN
         CASE r.res.tag \in {"SameDepth", "Underflow"} ->
                [root |-> IF r.result = None THEN None ELSE r.res.node,
                 result |-> r.result]
           [] r.res.tag = "Empty" -> [root |-> None, result |-> r.result]
           [] r.res.tag = "Panic" -> [root |-> None, result |-> Panic]

\* IndexableSortedMap::remove: the new root and the returned Option<V>;
\* an abort leaves the root swapped out (None)
remove(root, key) ==
    IF root = None THEN [root |-> None, result |-> None]
    ELSE LET r == NodeRemove(root, key) IN
         CASE r.res.tag \in {"SameDepth", "Underflow"} ->
                [root |-> r.res.node, result |-> r.result]
           [] r.res.tag = "Empty" -> [root |-> None, result |-> r.result]
           [] r.res.tag = "Panic" -> [root |-> None, result |-> Panic]

\* ---- reading a tree without its caches ----
\* the key/value pairs of the leaves, left to right
RECURSIVE Leaves(_)
Leaves(node) ==
    LET t == node.tree IN
    CASE t.tag = "Leaf" -> << <<t.k, t.v>> >>
      [] t.tag = "Branch2" -> Leaves(t.left) \o Leaves(t.right)
      [] t.tag = "Branch3" -> Leaves(t.left) \o Leaves(t.middle) \o Leaves(t.right)

Entries(r) == IF r = None THEN <<>> ELSE Leaves(r)
KeysOf(r) == {Entries(r)[i][1] : i \in 1..Len(Entries(r))}
ValuesAt(r, k) == {Entries(r)[i][2] : i \in {j \in 1..Len(Entries(r)) : Entries(r)[j][1] = k}}
CountKey(r, k) == Cardinality({i \in 1..Len(Entries(r)) : Entries(r)[i][1] = k})
DistinctKeys(r) == \A k \in KeysOf(r) : CountKey(r, k) = 1

\* ---- the program: one map, one cursor borrowed from it, and its caller ----
VARIABLES
    root,       \* IndexableSortedMap.root: None or the root node
    zip,        \* the live TreeZipper borrowed from the map, or None
    last,       \* the last call: its arguments, what it returned, the map and cursor before it
    ideal,      \* history: key -> Some(value last inserted) while inserted and not since removed
    dup,        \* history: some insert used a key that had a leaf in the map at the time
    panicked,   \* an unreachable!() was executed
    walk,       \* history: advance(1) calls made on the cursor since zipper()
    inserted,   \* history: the key/value pairs inserted, in the order of the inserts
    drained     \* history: how many of them have been removed again, oldest first

vars == <<root, zip, last, ideal, dup, panicked, walk, inserted, drained>>

\* the history kept by the callers that follow a script
script == <<walk, inserted, drained>>

Ranks == 0..MaxSize

Call(op, key, val, n, ret, pre, zpre) ==
    [op |-> op, key |-> key, val |-> val, n |-> n, ret |-> ret, pre |-> pre, zpre |-> zpre]

\* IndexableSortedMap::new
Init ==
    /\ root = None
    /\ zip = None
    /\ last = Call("new", 0, None, 0, None, None, None)
    /\ ideal = [k \in Keys |-> None]
    /\ dup = FALSE
    /\ panicked = FALSE
    /\ walk = 0
    /\ inserted = <<>>
    /\ drained = 0

\* map.insert(key, value); it takes &mut self, so no cursor outlives it
MapInsert(key, value) ==
    /\ ~panicked
    /\ len(root) < MaxSize
    /\ root' = insert(root, key, value)
    /\ zip' = None
    /\ last' = Call("insert", key, value, 0, None, root, None)
    /\ UNCHANGED panicked

\* map.remove(&key)
MapRemove(key) ==
    LET r == remove(root, key) IN
    /\ ~panicked
    /\ root' = r.root
    /\ zip' = None
    /\ last' = Call("remove", key, None, 0, r.result, root, None)
    /\ panicked' = (r.result = Panic)

Insert(key, value) == MapInsert(key, value) /\ UNCHANGED <<ideal, dup, script>>

Remove(key) == MapRemove(key) /\ UNCHANGED <<ideal, dup, script>>

\* map.lookup(&key)
Lookup(key) ==
    /\ ~panicked
    /\ last' = Call("lookup", key, None, 0, lookup(root, key), root, None)
    /\ panicked' = (lookup(root, key) = Panic)
    /\ UNCHANGED <<root, zip, ideal, dup, script>>

\* map.index(i)
Index(i) ==
    /\ ~panicked
    /\ last' = Call("index", 0, None, i, index(root, i), root, None)
    /\ panicked' = (index(root, i) = Panic)
    /\ UNCHANGED <<root, zip, ideal, dup, script>>

Next ==
    \/ \E key \in Keys, value \in Vals : Insert(key, value)
    \/ \E key \in Keys : Remove(key)
    \/ \E key \in Keys : Lookup(key)
    \/ \E i \in Ranks : Index(i)

\* a caller of insert, remove, lookup and index
Spec == Init /\ [][Next]_vars

\* ---- the same caller, with the history of what it asked for ----
TrackedInsert(key, value) ==
    /\ MapInsert(key, value)
    /\ ideal' = [ideal EXCEPT ![key] = Some(value)]
    /\ dup' = (dup \/ key \in KeysOf(root))
    /\ UNCHANGED script

TrackedRemove(key) ==
    /\ MapRemove(key)
    /\ ideal' = [ideal EXCEPT ![key] = None]
    /\ UNCHANGED <<dup, script>>

NextHistory ==
    \/ \E key \in Keys, value \in Vals : TrackedInsert(key, value)
    \/ \E key \in Keys : TrackedRemove(key)
    \/ \E key \in Keys : Lookup(key)

SpecHistory == Init /\ [][NextHistory]_vars

\* ---- a caller that walks a cursor over the map ----
\* zip = map.zipper()
Cursor ==
    /\ ~panicked
    /\ zip' = zipper(root)
    /\ last' = Call("zipper", 0, None, 0, zipper(root), root, zip)
    /\ UNCHANGED <<root, ideal, dup, panicked, script>>

\* the cursor left by a call that consumed the old one
Kept(r) == IF r = Panic THEN None ELSE r

\* zip = zip.advance_to(&k)
AdvanceTo(k) ==
    /\ ~panicked
    /\ zip # None
    /\ zip' = Kept(advance_to(zip.val, k))
    /\ last' = Call("advance_to", k, None, 0, advance_to(zip.val, k), root, zip)
    /\ panicked' = (advance_to(zip.val, k) = Panic)
    /\ UNCHANGED <<root, ideal, dup, script>>

\* zip = zip.advance(n)
Advance(n) ==
    /\ ~panicked
    /\ zip # None
    /\ zip' = Kept(advance(zip.val, n))
    /\ last' = Call("advance", 0, None, n, advance(zip.val, n), root, zip)
    /\ panicked' = (advance(zip.val, n) = Panic)
    /\ UNCHANGED <<root, ideal, dup, script>>

NextCursor ==
    \/ \E key \in Keys, value \in Vals : Insert(key, value)
    \/ \E key \in Keys : Remove(key)
    \/ Cursor
    \/ \E k \in Keys : AdvanceTo(k)
    \/ \E n \in Ranks : Advance(n)

SpecCursor == Init /\ [][NextCursor]_vars

\* ---- a caller that never inserts a key the map holds ----
FreshInsert(key, value) ==
    /\ key \notin KeysOf(root)
    /\ Insert(key, value)

NextFresh ==
    \/ \E key \in Keys, value \in Vals : FreshInsert(key, value)
    \/ \E key \in Keys : Remove(key)

SpecFresh == Init /\ [][NextFresh]_vars

\* ---- the same callers over maps of one value: neither the tree operations nor
\* ---- the cursor ever read a value, so the shapes and the moves are all there
OneVal == CHOOSE value \in Vals : TRUE

NextMoves ==
    \/ \E key \in Keys : Insert(key, OneVal)
    \/ \E key \in Keys : Remove(key)
    \/ Cursor
    \/ \E k \in Keys : AdvanceTo(k)
    \/ \E n \in Ranks : Advance(n)

SpecMoves == Init /\ [][NextMoves]_vars

\* ---- a caller that takes a cursor and steps it with advance(1) ----
WalkInsert(key, value) ==
    /\ MapInsert(key, value)
    /\ walk' = 0
    /\ UNCHANGED <<ideal, dup, inserted, drained>>

WalkRemove(key) ==
    /\ MapRemove(key)
    /\ walk' = 0
    /\ UNCHANGED <<ideal, dup, inserted, drained>>

\* zip = map.zipper()
WalkCursor ==
    /\ ~panicked
    /\ zip' = zipper(root)
    /\ last' = Call("zipper", 0, None, 0, zipper(root), root, zip)
    /\ walk' = 0
    /\ UNCHANGED <<root, ideal, dup, panicked, inserted, drained>>

\* zip = zip.advance(1)
WalkStep ==
    /\ ~panicked
    /\ zip # None
    /\ zip' = Kept(advance(zip.val, 1))
    /\ last' = Call("advance", 0, None, 1, advance(zip.val, 1), root, zip)
    /\ panicked' = (advance(zip.val, 1) = Panic)
    /\ walk' = walk + 1
    /\ UNCHANGED <<root, ideal, dup, inserted, drained>>

NextWalk ==
    \/ \E key \in Keys, value \in Vals : WalkInsert(key, value)
    \/ \E key \in Keys : WalkRemove(key)
    \/ WalkCursor
    \/ WalkStep

SpecWalk == Init /\ [][NextWalk]_vars

\* ---- a caller that fills an empty map with distinct keys, then removes them
\* ---- again one by one in the order it inserted them
FillInsert(key, value) ==
    /\ drained = 0
    /\ \A i \in 1..Len(inserted) : inserted[i][1] # key
    /\ MapInsert(key, value)
    /\ inserted' = Append(inserted, <<key, value>>)
    /\ UNCHANGED <<ideal, dup, walk, drained>>

DrainRemove ==
    /\ drained < Len(inserted)
    /\ MapRemove(inserted[drained + 1][1])
    /\ drained' = drained + 1
    /\ UNCHANGED <<ideal, dup, walk, inserted>>

NextDrain ==
    \/ \E key \in Keys, value \in Vals : FillInsert(key, value)
    \/ DrainRemove

SpecDrain == Init /\ [][NextDrain]_vars

\* ---- properties ----
Min(S) == CHOOSE x \in S : \A y \in S : x <= y
Height2(r) == r # None /\ r.tree.tag # "Leaf" /\ r.tree.left.tree.tag # "Leaf"

\* the depths at which the leaves of a subtree sit
RECURSIVE LeafDepths(_)
LeafDepths(node) ==
    LET t == node.tree IN
    CASE t.tag = "Leaf" -> {0}
      [] t.tag = "Branch2" ->
           {d + 1 : d \in LeafDepths(t.left) \cup LeafDepths(t.right)}
      [] t.tag = "Branch3" ->
           {d + 1 : d \in LeafDepths(t.left) \cup LeafDepths(t.middle) \cup LeafDepths(t.right)}

\* the children of a node
Children(node) ==
    LET t == node.tree IN
    CASE t.tag = "Leaf" -> <<>>
      [] t.tag = "Branch2" -> <<t.left, t.right>>
      [] t.tag = "Branch3" -> <<t.left, t.middle, t.right>>

\* every internal node of the subtree has two or three children
RECURSIVE TwoOrThree(_)
TwoOrThree(node) ==
    /\ node.tree.tag \in {"Leaf", "Branch2", "Branch3"}
    /\ node.tree.tag = "Leaf" <=> Len(Children(node)) = 0
    /\ node.tree.tag # "Leaf" => Len(Children(node)) \in {2, 3}
    /\ \A i \in 1..Len(Children(node)) : TwoOrThree(Children(node)[i])

\* every node of the subtree has the caches its leaves give it
RECURSIVE CachesAgree(_)
CachesAgree(node) ==
    /\ node.min_key = Leaves(node)[1][1]
    /\ node.size = Len(Leaves(node))
    /\ \A i \in 1..Len(Children(node)) : CachesAgree(Children(node)[i])

\* C1: when no insert used a key that was present, lookup(k) returns the value
\* inserted with k if k is inserted and not since removed, and absent otherwise.
C1_LookupReturnsInserted ==
    (last.op = "lookup" /\ ~dup) => last.ret = ideal[last.key]

\* C2: on a non-empty map, cursor().advance_to(k) is focused on the leaf with the
\* smallest key >= k, and is absent exactly when the map holds no key >= k.
C2_AdvanceToSmallestGE ==
    (last.op = "advance_to" /\ last.zpre = zipper(root)) =>
        LET ge == {x \in KeysOf(root) : x >= last.key} IN
        IF ge = {} THEN last.ret = None
        ELSE /\ last.ret.tag = "Some"
             /\ last.ret.val.focus[1] = Min(ge)
             /\ last.ret.val.focus[2] \in ValuesAt(root, Min(ge))

\* C3: on a map with distinct keys, remove(k) of a present key returns its value,
\* leaves no leaf with key k and makes len() one less; of an absent key it
\* returns absent.
C3_RemoveReturnsAndDeletes ==
    (last.op = "remove" /\ DistinctKeys(last.pre)) =>
        IF last.key \in KeysOf(last.pre)
        THEN /\ \E v \in ValuesAt(last.pre, last.key) : last.ret = Some(v)
             /\ last.key \notin KeysOf(root)
             /\ len(root) = len(last.pre) - 1
        ELSE last.ret = None

\* C4: insert(k, v) of a key already present replaces its value: exactly one leaf
\* with key k, holding v, and len() unchanged.
C4_InsertReplaces ==
    (last.op = "insert" /\ last.key \in KeysOf(last.pre)) =>
        /\ CountKey(root, last.key) = 1
        /\ ValuesAt(root, last.key) = {last.val}
        /\ len(root) = len(last.pre)

\* C5: after every insert or remove, with arbitrary keys, the leaves read left to
\* right carry strictly ascending keys.
C5_StrictlyAscending ==
    \A i \in 1..(Len(Entries(root)) - 1) : Entries(root)[i][1] < Entries(root)[i + 1][1]

\* C6: len() is the number of distinct keys inserted and not since removed.
C6_LenCountsLiveKeys ==
    len(root) = Cardinality({k \in Keys : ideal[k] # None})

\* C7: index(i) returns the key and value of the i-th leaf (0-based) when
\* i < len(), and absent when i >= len(), the empty map included.
C7_IndexIsIthLeaf ==
    last.op = "index" =>
        IF last.n < len(root)
        THEN last.ret = Some(Entries(root)[last.n + 1])
        ELSE last.ret = None

\* C7 witness: index reached a leaf beyond the first subtree of a two-level tree
C7_Witness ==
    /\ last.op = "index"
    /\ Height2(root)
    /\ last.n >= root.tree.left.size
    /\ last.ret = Some(Entries(root)[last.n + 1])

\* C8: after every insert or remove all leaves are at the same depth, and every
\* internal node has two or three children.
C8_UniformDepth ==
    root # None =>
        /\ Cardinality(LeafDepths(root)) = 1
        /\ TwoOrThree(root)

\* C8 witness: a remove whose child underflowed has rebuilt a multi-level tree
C8_Witness ==
    /\ last.op = "remove"
    /\ Height2(last.pre)
    /\ last.ret # None
    /\ root # None
    /\ root.tree.tag = "Branch3"

\* C9: after every insert or remove every node's min_key is the key of its
\* leftmost leaf and its size is its number of leaves; len() is the leaf count.
C9_CachesAgree ==
    /\ root # None => CachesAgree(root)
    /\ len(root) = Len(Entries(root))

\* C9 witness: a three-child node over a two-level tree carries its caches
C9_Witness ==
    /\ last.op \in {"insert", "remove"}
    /\ root # None
    /\ root.tree.tag = "Branch3"
    /\ root.size = 3
    /\ root.min_key = Entries(root)[1][1]

\* C10: for a key k not in the map, insert(k, v) then remove(k) returns v and
\* leaves the same len and the same left-to-right key/value pairs.
C10_InsertRemoveRoundTrip ==
    \A k \in Keys \ KeysOf(root) : \A v \in Vals :
        LET r == remove(insert(root, k, v), k) IN
        /\ r.result = Some(v)
        /\ len(r.root) = len(root)
        /\ Entries(r.root) = Entries(root)

\* C11 as stated: from cursor() on a map of n leaves, each of the first n calls
\* of advance(1) yields a key (and only call n + 1 is absent).
C11_WalkYieldsLenKeys ==
    (last.op = "advance" /\ walk \in 1..len(root)) => last.ret # None

\* C11 amended: cursor() is focused on the first leaf; call j of advance(1), for
\* j < n, is focused on the leaf of rank j, whose key is not below the one before;
\* call n is absent.
C11_WalkVisitsLeavesInOrder ==
    /\ (last.op = "zipper" /\ root # None) =>
           /\ walk = 0
           /\ last.ret = zip
           /\ zip.val.focus = Entries(root)[1]
    /\ last.op = "advance" =>
           /\ walk \in 1..len(root)
           /\ last.zpre.val.focus = Entries(root)[walk]
           /\ IF walk < len(root)
              THEN /\ last.ret.tag = "Some"
                   /\ last.ret.val.focus = Entries(root)[walk + 1]
                   /\ last.ret.val.focus[1] >= last.zpre.val.focus[1]
              ELSE last.ret = None

\* C11 witness: a walk over a two-level tree has run off its last leaf
C11_Witness ==
    /\ last.op = "advance"
    /\ Height2(root)
    /\ walk = len(root)
    /\ last.ret = None

\* C12: distinct keys are inserted into an empty map in any order and then removed
\* one by one in insertion order; every remove returns the value of the key it
\* removes, and after the last one len() = 0 and the root is absent.
C12_DrainInInsertionOrder ==
    /\ drained > 0 =>
           /\ last.op = "remove"
           /\ last.key = inserted[drained][1]
           /\ last.ret = Some(inserted[drained][2])
    /\ (drained > 0 /\ drained = Len(inserted)) =>
           /\ len(root) = 0
           /\ root = None

\* C13: is_empty(), len() = 0 and an absent cursor() agree in every reachable
\* state; on an empty map lookup(x), index(0) and remove(x) are absent for every
\* x; on a non-empty map cursor() is focused on the leftmost leaf, the entry
\* index(0) returns.
C13_EmptinessAgrees ==
    /\ is_empty(root) <=> (len(root) = 0)
    /\ (len(root) = 0) <=> (zipper(root) = None)
    /\ is_empty(root) =>
           /\ index(root, 0) = None
           /\ \A x \in Keys :
                  /\ lookup(root, x) = None
                  /\ remove(root, x) = [root |-> None, result |-> None]
    /\ ~is_empty(root) =>
           /\ zipper(root).val.stack # <<>> <=> root.tree.tag # "Leaf"
           /\ into_focus(zipper(root).val) = Entries(root)[1]
           /\ index(root, 0) = Some(into_focus(zipper(root).val))

\* C13 witness: a remove has taken the last key out of the map
C13_Witness ==
    /\ is_empty(root)
    /\ last.op = "remove"
    /\ last.ret # None
    /\ last.pre # None

RECURSIVE Pow(_, _)
Pow(b, e) == IF e = 0 THEN 1 ELSE b * Pow(b, e - 1)

Max(S) == CHOOSE x \in S : \A y \in S : x >= y

\* the depth of the deepest leaf below the root (a root leaf has depth 0)
Depth(r) == Max(LeafDepths(r))

\* the least e with 2^e >= m
CeilLog2(m) == Min({e \in 0..m : Pow(2, e) >= m})

\* C14: a tree of n >= 1 leaves and depth d has 2^d <= n <= 3^d, hence
\* d <= ceil(log2(n + 1)).
C14_HeightBound ==
    root # None =>
        LET n == Len(Entries(root))
            d == Depth(root)
        IN /\ n >= 1
           /\ Pow(2, d) <= n
           /\ n <= Pow(3, d)
           /\ d <= CeilLog2(n + 1)

\* C14 witness: an insert has just made the tree one level deeper, to depth 2
C14_Witness ==
    /\ last.op = "insert"
    /\ last.pre # None
    /\ Depth(last.pre) = 1
    /\ Depth(root) = 2

RECURSIVE Nodes(_)
Nodes(node) ==
    {node} \cup UNION {Nodes(Children(node)[i]) : i \in 1..Len(Children(node))}

NodesOf(r) == IF r = None THEN {} ELSE Nodes(r)

\* C16: at a Branch3(A, B, C) remove(k) goes into A exactly when k < B.min_key,
\* into B exactly when B.min_key <= k < C.min_key, into C otherwise; so a key
\* stored in B is found and removed.
C16_Branch3Routing ==
    \A node \in NodesOf(root) :
        node.tree.tag = "Branch3" =>
            LET t == node.tree
                intoA(k) == RemB3GoesLeft(k, t)
                intoB(k) == ~RemB3GoesLeft(k, t) /\ RemB3GoesMiddle(k, t)
                intoC(k) == ~RemB3GoesLeft(k, t) /\ ~RemB3GoesMiddle(k, t)
            IN \A k \in Keys :
                   /\ intoA(k) <=> k < t.middle.min_key
                   /\ intoB(k) <=> (t.middle.min_key <= k /\ k < t.right.min_key)
                   /\ intoC(k) <=> k >= t.right.min_key
                   /\ k \in KeysOf(t.middle) =>
                          /\ NodeRemove(node, k).result \in {Some(v) : v \in ValuesAt(node, k)}
                          /\ NodeRemove(node, k).res.tag # "Panic"
                          /\ CountKey(NodeRemove(node, k).res.node, k) = CountKey(node, k) - 1

\* every key of a child is below the min_key of the next child, at every branch
RECURSIVE Partitioned(_)
Partitioned(node) ==
    LET c == Children(node) IN
    /\ \A i \in 1..(Len(c) - 1) : \A k \in KeysOf(c[i]) : k < c[i + 1].min_key
    /\ \A i \in 1..Len(c) : Partitioned(c[i])

\* C17: while no insert uses a key the map holds, after every call every
\* Branch2(a, b) has the keys of a below b.min_key and every Branch3(a, b, c) has
\* the keys of a below b.min_key and the keys of b below c.min_key.
C17_Partitioned ==
    root # None => Partitioned(root)

\* C17 witness: a remove has taken a key out of a two-level tree, leaving a Branch3
C17_Witness ==
    /\ last.op = "remove"
    /\ last.ret # None
    /\ Height2(last.pre)
    /\ root # None
    /\ root.tree.tag = "Branch3"

\* the height of the map: 0 for an absent root, else the depth of its leaves
Height(r) == IF r = None THEN 0 ELSE Depth(r)

\* what Node::insert and Node::remove hand back has the height its tag promises
OutcomeHeights(node) ==
    /\ \A k \in Keys, v \in Vals :
           LET r == NodeInsert(node, k, v) IN
           CASE r.tag = "SameDepth" -> Depth(r.node) = Depth(node)
             [] r.tag = "Overflow" -> Depth(r.left) = Depth(node) /\ Depth(r.right) = Depth(node)
    /\ \A k \in Keys :
           LET r == NodeRemove(node, k).res IN
           CASE r.tag = "SameDepth" -> Depth(r.node) = Depth(node)
             [] r.tag = "Underflow" ->
                  Depth(r.node) = Depth(node) - 1 /\ node.tree.tag = "Branch2"
             [] r.tag = "Empty" -> node.tree.tag = "Leaf"
             [] OTHER -> FALSE

\* C18: an insert leaves the height or adds 1 to it, the latter exactly when the
\* root's outcome is Overflow; a remove leaves the height or takes 1 from it, the
\* latter exactly when the root's outcome is Underflow; below the root every
\* outcome keeps the height its tag stands for, and a remove on a Branch3 never
\* yields Underflow.
C18_HeightStepsAtRoot ==
    /\ last.op = "insert" =>
           /\ Height(root) \in {Height(last.pre), Height(last.pre) + 1}
           /\ Height(root) = Height(last.pre) + 1 <=>
                  /\ last.pre # None
                  /\ NodeInsert(last.pre, last.key, last.val).tag = "Overflow"
    /\ last.op = "remove" =>
           /\ Height(root) \in {Height(last.pre), Height(last.pre) - 1}
           /\ Height(root) = Height(last.pre) - 1 <=>
                  /\ last.pre # None
                  /\ NodeRemove(last.pre, last.key).res.tag = "Underflow"
    /\ \A node \in NodesOf(root) : OutcomeHeights(node)

\* C18 witness: a remove has made a two-level tree one level lower
C18_Witness ==
    /\ last.op = "remove"
    /\ Height(last.pre) = 2
    /\ Height(root) = 1

\* C19: remove(k) of a key the map does not hold returns absent and leaves the
\* map as it was: same len(), same sequence of key/value pairs, same tree.
C19_RemoveMissingIsNoOp ==
    (last.op = "remove" /\ last.key \notin KeysOf(last.pre)) =>
        /\ last.ret = None
        /\ len(root) = len(last.pre)
        /\ Entries(root) = Entries(last.pre)
        /\ root = last.pre

\* C19 witness: a remove of a missing key has gone down a two-level tree
C19_Witness ==
    /\ last.op = "remove"
    /\ last.key \notin KeysOf(last.pre)
    /\ Height2(last.pre)
    /\ last.ret = None

\* the leaves to the left of the child a frame points at
LeftOf(context) ==
    LET t == context.node.tree IN
    CASE context.context \in {"Branch2Left", "Branch3Left"} -> 0
      [] context.context \in {"Branch2Right", "Branch3Middle"} -> t.left.size
      [] context.context = "Branch3Right" -> t.left.size + t.middle.size

\* the rank of the leaf a cursor is focused on
RECURSIVE Rank(_)
Rank(stack) == IF stack = <<>> THEN 0 ELSE LeftOf(Top(stack)) + Rank(Pop(stack))

\* advance applied to what an earlier advance returned
ThenAdvance(r, n) == IF r \in {None, Panic} THEN r ELSE advance(r.val, n)

\* C20: from a cursor on the leaf of rank r in a map of n leaves, advance(m) is
\* focused on the leaf of rank r + m when r + m < n and absent when r + m >= n;
\* advance(a) then advance(b) ends on the same leaf, or in the same absence, as
\* advance(a + b); advance(0) returns the cursor unchanged.
C20_AdvanceAdditive ==
    /\ last.op = "advance" =>
           LET r == Rank(last.zpre.val.stack)
               m == last.n
           IN /\ last.zpre.val.focus = Entries(root)[r + 1]
              /\ IF r + m < len(root)
                 THEN /\ last.ret.tag = "Some"
                      /\ Rank(last.ret.val.stack) = r + m
                      /\ last.ret.val.focus = Entries(root)[r + m + 1]
                 ELSE last.ret = None
    /\ zip # None =>
           /\ advance(zip.val, 0) = zip
           /\ \A a, b \in Ranks :
                  LET two == ThenAdvance(advance(zip.val, a), b)
                      one == advance(zip.val, a + b)
                  IN /\ two.tag = one.tag
                     /\ one.tag = "Some" =>
                            /\ two.val.focus = one.val.focus
                            /\ Rank(two.val.stack) = Rank(one.val.stack)

\* C20 witness: a cursor past the first leaf has been advanced by two or more
C20_Witness ==
    /\ last.op = "advance"
    /\ last.n >= 2
    /\ Rank(last.zpre.val.stack) >= 1
    /\ last.ret # None
    /\ Height2(root)

\* the child of its node that a frame points at
Pointed(context) ==
    LET t == context.node.tree IN
    CASE context.context \in {"Branch2Left", "Branch3Left"} -> t.left
      [] context.context = "Branch3Middle" -> t.middle
      [] context.context \in {"Branch2Right", "Branch3Right"} -> t.right

\* the slots a node of this arity has
Slots(node) ==
    CASE node.tree.tag = "Branch2" -> {"Branch2Left", "Branch2Right"}
      [] node.tree.tag = "Branch3" -> {"Branch3Left", "Branch3Middle", "Branch3Right"}
      [] node.tree.tag = "Leaf" -> {}

\* z is a path from the node r down to one of its leaves
WellFormed(z, r) ==
    LET stack == z.stack
        at(i) == IF i = 1 THEN r ELSE Pointed(stack[i - 1])
    IN /\ \A i \in 1..Len(stack) :
              /\ stack[i].node = at(i)
              /\ stack[i].context \in Slots(stack[i].node)
       /\ at(Len(stack) + 1).tree.tag = "Leaf"
       /\ z.focus = <<at(Len(stack) + 1).tree.k, at(Len(stack) + 1).tree.v>>
       /\ Len(stack) = Depth(r)

\* C21: every cursor returned by cursor(), advance or advance_to is focused on
\* a leaf and its spine has one frame per internal ancestor of that leaf, root
\* first, each with a slot of its node's arity naming the child that holds the
\* focus; so the spine is as long as the tree is deep.
C21_CursorWellFormed ==
    /\ zip # None => WellFormed(zip.val, root)
    /\ (last.op \in {"zipper", "advance", "advance_to"} /\ last.ret # None) =>
           /\ last.ret = zip
           /\ WellFormed(last.ret.val, root)

\* C21 witness: advance_to has moved a cursor to another leaf of a two-level tree
C21_Witness ==
    /\ last.op = "advance_to"
    /\ last.ret # None
    /\ Height2(root)
    /\ Rank(last.ret.val.stack) > Rank(last.zpre.val.stack)
    /\ WellFormed(last.ret.val, root)

\* the keys of the leaves never go down from left to right
NonDecreasing(r) ==
    \A i \in 1..(Len(Entries(r)) - 1) : Entries(r)[i][1] <= Entries(r)[i + 1][1]

\* the cached min_key never goes down from one child to the next
MinKeysOrdered(node) ==
    \A i \in 1..(Len(Children(node)) - 1) :
        Children(node)[i].min_key <= Children(node)[i + 1].min_key

\* C22: after any inserts and removes, inserts of present keys included, the
\* leaves are in non-decreasing key order and the children of every internal
\* node have non-decreasing min_key; an insert of a present key adds a second
\* leaf with that key.
C22_NonDecreasingOrder ==
    /\ NonDecreasing(root)
    /\ \A node \in NodesOf(root) : MinKeysOrdered(node)
    /\ (last.op = "insert" /\ last.key \in KeysOf(last.pre)) =>
           /\ CountKey(root, last.key) = CountKey(last.pre, last.key) + 1
           /\ len(root) = len(last.pre) + 1

\* C22 witness: a key the map held has been inserted again and a remove has followed
C22_Witness ==
    /\ last.op = "remove"
    /\ last.ret # None
    /\ \E k \in KeysOf(root) : CountKey(root, k) >= 2
    /\ root.tree.tag # "Leaf"

\* C23: whenever advance_to(k) returns a cursor, its focused key is >= k and the
\* rank of its focus is not below the rank the cursor had before the call; when
\* the focused key was already >= k the cursor comes back with the same focus
\* and the same spine.
C23_AdvanceToSoundMonotone ==
    (last.op = "advance_to" /\ last.ret # None) =>
        /\ last.ret.tag = "Some"
        /\ into_focus(last.ret.val)[1] >= last.key
        /\ Rank(last.ret.val.stack) >= Rank(last.zpre.val.stack)
        /\ into_focus(last.ret.val) = Entries(root)[Rank(last.ret.val.stack) + 1]
        /\ into_focus(last.zpre.val)[1] >= last.key => last.ret = last.zpre

\* C23 witness: advance_to has carried a cursor two or more leaves forward
C23_Witness ==
    /\ last.op = "advance_to"
    /\ last.ret # None
    /\ Height2(root)
    /\ Rank(last.ret.val.stack) >= Rank(last.zpre.val.stack) + 2

\* C24: whenever lookup(k) returns a value v, a leaf of the tree holds key k
\* with value v: never the value of another key, never one that is gone.
C24_LookupSound ==
    /\ (last.op = "lookup" /\ last.ret # None) =>
           \E i \in 1..Len(Entries(root)) : Entries(root)[i] = <<last.key, last.ret.val>>
    /\ \A k \in Keys :
           lookup(root, k) # None =>
               /\ lookup(root, k).tag = "Some"
               /\ lookup(root, k).val \in ValuesAt(root, k)

\* C24 witness: lookup has returned a value from a two-level tree that also holds
\* a key on which lookup is silent
C24_Witness ==
    /\ last.op = "lookup"
    /\ last.ret # None
    /\ Height2(root)
    /\ \E k \in KeysOf(root) : lookup(root, k) = None

\* a sequence without its i-th element
RemoveAt(s, i) == SubSeq(s, 1, i - 1) \o SubSeq(s, i + 1, Len(s))

\* C25: insert(k, v) makes the sequence of pairs the previous one with exactly
\* one pair (k, v) added, the others in their order, and len one more;
\* remove(k) makes it the previous one with at most one pair taken out, a pair
\* of key k whose value is the one returned, every other pair kept.
C25_MutationsTouchOwnEntry ==
    /\ last.op = "insert" =>
           /\ len(root) = len(last.pre) + 1
           /\ \E i \in 1..Len(Entries(root)) :
                  /\ Entries(root)[i] = <<last.key, last.val>>
                  /\ RemoveAt(Entries(root), i) = Entries(last.pre)
    /\ last.op = "remove" =>
           \/ /\ last.ret = None
              /\ Entries(root) = Entries(last.pre)
              /\ len(root) = len(last.pre)
           \/ \E i \in 1..Len(Entries(last.pre)) :
                  /\ Entries(last.pre)[i][1] = last.key
                  /\ last.ret = Some(Entries(last.pre)[i][2])
                  /\ RemoveAt(Entries(last.pre), i) = Entries(root)
                  /\ len(root) = len(last.pre) - 1

\* C25 witness: a remove has taken one pair out of a two-level tree that held
\* its key twice
C25_Witness ==
    /\ last.op = "remove"
    /\ last.ret # None
    /\ Height2(last.pre)
    /\ CountKey(last.pre, last.key) = 2
    /\ CountKey(root, last.key) = 1

====
